---- MODULE Spec2Model ----
(***************************************************************************)
(* State machine of the chat-driven video editor:                          *)
(*   src/src/components/ChatEditor.js             (session, reply timers)  *)
(*   src/src/components/tool-panels/AudioPanel.js (audio previews)         *)
(*                                                                         *)
(* Every event handler runs to completion and React re-renders before the  *)
(* next event is delivered, so a handler reads the state of the render     *)
(* that precedes it; a setTimeout callback reads the values its closure    *)
(* captured when the timer was created.  Timers created with the same      *)
(* delay fire in creation order.  new Date() reads a clock that counts the *)
(* ms since the editor was created.  Timers run on the runtime's own       *)
(* clock: a callback runs about its delay after the call that created it,  *)
(* and new Date() may then read a few ms less than the delay has added.    *)
(*                                                                         *)
(* Text is a sequence of characters (one-character strings).  The fixed    *)
(* literals of the source are kept as a single chunk: they are only ever   *)
(* compared for equality, never searched.                                  *)
(***************************************************************************)
EXTENDS Integers, Sequences, FiniteSets, TLC

VARIABLES
    messages,         \* ChatEditor: useState messages (the log)
    input,            \* ChatEditor: useState input (the pending input buffer)
    activeScene,      \* ChatEditor: useState activeScene
    activeToolPanel,  \* ChatEditor: useState activeToolPanel, Null when none
    replyTimers,      \* pending setTimeout(..., 1000) callbacks, oldest first
    activeTab,        \* AudioPanel: useState activeTab
    playing,          \* AudioPanel: useState playing, Null when none
    script,           \* AudioPanel: useState script
    voiceTimers,      \* pending setTimeout(..., 3000) callbacks, oldest first
    now,              \* the clock new Date() reads: ms since the editor was
                      \* created
    sends,            \* history: number of accepted sends
    fired,            \* history: number of reply callbacks that have run
    lastEvent         \* history: the handler that ran last, with its inputs

vars == <<messages, input, activeScene, activeToolPanel, replyTimers,
          activeTab, playing, script, voiceTimers, now, sends, fired,
          lastEvent>>

sessionVars == <<messages, input, activeScene, activeToolPanel>>
audioVars == <<activeTab, playing, script, voiceTimers>>

Null == "null"

-----------------------------------------------------------------------------
(* Bounds of the model *)

\* accepted sends in one behaviour
MaxSends == 3
\* voice-preview timers pending at once
MaxVoiceTimers == 2
\* accepted sends in one behaviour of the response-simulator specification
MaxSimSends == 2
\* ms the clock moves past a multiple of the reply delay with no event
MaxDrift == 1
\* ms by which new Date() in a timer callback may read short of the time of
\* the setTimeout call plus the delay
MaxEarly == 1

-----------------------------------------------------------------------------
(* Text *)

\* The characters String.prototype.trim removes: the WhiteSpace and
\* LineTerminator code points of ECMAScript.  A character is a one-character
\* string; a code point a TLA+ string cannot hold is written by its name,
\* "U+00A0", and is one character of the text like any other.
WhiteSpace ==
    {"\t", "\n", "U+000B", "\f", "\r", " ",
     "U+00A0", "U+1680",
     "U+2000", "U+2001", "U+2002", "U+2003", "U+2004", "U+2005",
     "U+2006", "U+2007", "U+2008", "U+2009", "U+200A",
     "U+2028", "U+2029", "U+202F", "U+205F", "U+3000", "U+FEFF"}

\* The code points a text of the model is written with: the ASCII,
\* Latin-1 and Latin Extended-A letters and signs, the spacing modifier
\* letters and combining diacritical marks, Greek and Coptic, general
\* punctuation, the letterlike symbols, and the white space outside these
\* blocks.  An element of a text is a code point.  The case mappings and
\* case classes of these code points are those of Unicode 14.0, and no
\* later version changes them; the conversions below are defined on texts
\* over Alphabet and on no other.
Alphabet ==
    {
     "\t", "\n", "U+000B", "\f", "\r", " ", "!", "\"",
     "#", "$", "%", "&", "'", "(", ")", "*",
     "+", ",", "-", ".", "/", "0", "1", "2",
     "3", "4", "5", "6", "7", "8", "9", ":",
     ";", "<", "=", ">", "?", "@", "A", "B",
     "C", "D", "E", "F", "G", "H", "I", "J",
     "K", "L", "M", "N", "O", "P", "Q", "R",
     "S", "T", "U", "V", "W", "X", "Y", "Z",
     "[", "\\", "]", "^", "_", "U+0060", "a", "b",
     "c", "d", "e", "f", "g", "h", "i", "j",
     "k", "l", "m", "n", "o", "p", "q", "r",
     "s", "t", "u", "v", "w", "x", "y", "z",
     "{", "|", "}", "~", "U+00A0", "U+00A1", "U+00A2", "U+00A3",
     "U+00A4", "U+00A5", "U+00A6", "U+00A7", "U+00A8", "U+00A9", "U+00AA", "U+00AB",
     "U+00AC", "U+00AD", "U+00AE", "U+00AF", "U+00B0", "U+00B1", "U+00B2", "U+00B3",
     "U+00B4", "U+00B5", "U+00B6", "U+00B7", "U+00B8", "U+00B9", "U+00BA", "U+00BB",
     "U+00BC", "U+00BD", "U+00BE", "U+00BF", "U+00C0", "U+00C1", "U+00C2", "U+00C3",
     "U+00C4", "U+00C5", "U+00C6", "U+00C7", "U+00C8", "U+00C9", "U+00CA", "U+00CB",
     "U+00CC", "U+00CD", "U+00CE", "U+00CF", "U+00D0", "U+00D1", "U+00D2", "U+00D3",
     "U+00D4", "U+00D5", "U+00D6", "U+00D7", "U+00D8", "U+00D9", "U+00DA", "U+00DB",
     "U+00DC", "U+00DD", "U+00DE", "U+00DF", "U+00E0", "U+00E1", "U+00E2", "U+00E3",
     "U+00E4", "U+00E5", "U+00E6", "U+00E7", "U+00E8", "U+00E9", "U+00EA", "U+00EB",
     "U+00EC", "U+00ED", "U+00EE", "U+00EF", "U+00F0", "U+00F1", "U+00F2", "U+00F3",
     "U+00F4", "U+00F5", "U+00F6", "U+00F7", "U+00F8", "U+00F9", "U+00FA", "U+00FB",
     "U+00FC", "U+00FD", "U+00FE", "U+00FF", "U+0100", "U+0101", "U+0102", "U+0103",
     "U+0104", "U+0105", "U+0106", "U+0107", "U+0108", "U+0109", "U+010A", "U+010B",
     "U+010C", "U+010D", "U+010E", "U+010F", "U+0110", "U+0111", "U+0112", "U+0113",
     "U+0114", "U+0115", "U+0116", "U+0117", "U+0118", "U+0119", "U+011A", "U+011B",
     "U+011C", "U+011D", "U+011E", "U+011F", "U+0120", "U+0121", "U+0122", "U+0123",
     "U+0124", "U+0125", "U+0126", "U+0127", "U+0128", "U+0129", "U+012A", "U+012B",
     "U+012C", "U+012D", "U+012E", "U+012F", "U+0130", "U+0131", "U+0132", "U+0133",
     "U+0134", "U+0135", "U+0136", "U+0137", "U+0138", "U+0139", "U+013A", "U+013B",
     "U+013C", "U+013D", "U+013E", "U+013F", "U+0140", "U+0141", "U+0142", "U+0143",
     "U+0144", "U+0145", "U+0146", "U+0147", "U+0148", "U+0149", "U+014A", "U+014B",
     "U+014C", "U+014D", "U+014E", "U+014F", "U+0150", "U+0151", "U+0152", "U+0153",
     "U+0154", "U+0155", "U+0156", "U+0157", "U+0158", "U+0159", "U+015A", "U+015B",
     "U+015C", "U+015D", "U+015E", "U+015F", "U+0160", "U+0161", "U+0162", "U+0163",
     "U+0164", "U+0165", "U+0166", "U+0167", "U+0168", "U+0169", "U+016A", "U+016B",
     "U+016C", "U+016D", "U+016E", "U+016F", "U+0170", "U+0171", "U+0172", "U+0173",
     "U+0174", "U+0175", "U+0176", "U+0177", "U+0178", "U+0179", "U+017A", "U+017B",
     "U+017C", "U+017D", "U+017E", "U+017F", "U+02B0", "U+02B1", "U+02B2", "U+02B3",
     "U+02B4", "U+02B5", "U+02B6", "U+02B7", "U+02B8", "U+02B9", "U+02BA", "U+02BB",
     "U+02BC", "U+02BD", "U+02BE", "U+02BF", "U+02C0", "U+02C1", "U+02C2", "U+02C3",
     "U+02C4", "U+02C5", "U+02C6", "U+02C7", "U+02C8", "U+02C9", "U+02CA", "U+02CB",
     "U+02CC", "U+02CD", "U+02CE", "U+02CF", "U+02D0", "U+02D1", "U+02D2", "U+02D3",
     "U+02D4", "U+02D5", "U+02D6", "U+02D7", "U+02D8", "U+02D9", "U+02DA", "U+02DB",
     "U+02DC", "U+02DD", "U+02DE", "U+02DF", "U+02E0", "U+02E1", "U+02E2", "U+02E3",
     "U+02E4", "U+02E5", "U+02E6", "U+02E7", "U+02E8", "U+02E9", "U+02EA", "U+02EB",
     "U+02EC", "U+02ED", "U+02EE", "U+02EF", "U+02F0", "U+02F1", "U+02F2", "U+02F3",
     "U+02F4", "U+02F5", "U+02F6", "U+02F7", "U+02F8", "U+02F9", "U+02FA", "U+02FB",
     "U+02FC", "U+02FD", "U+02FE", "U+02FF", "U+0300", "U+0301", "U+0302", "U+0303",
     "U+0304", "U+0305", "U+0306", "U+0307", "U+0308", "U+0309", "U+030A", "U+030B",
     "U+030C", "U+030D", "U+030E", "U+030F", "U+0310", "U+0311", "U+0312", "U+0313",
     "U+0314", "U+0315", "U+0316", "U+0317", "U+0318", "U+0319", "U+031A", "U+031B",
     "U+031C", "U+031D", "U+031E", "U+031F", "U+0320", "U+0321", "U+0322", "U+0323",
     "U+0324", "U+0325", "U+0326", "U+0327", "U+0328", "U+0329", "U+032A", "U+032B",
     "U+032C", "U+032D", "U+032E", "U+032F", "U+0330", "U+0331", "U+0332", "U+0333",
     "U+0334", "U+0335", "U+0336", "U+0337", "U+0338", "U+0339", "U+033A", "U+033B",
     "U+033C", "U+033D", "U+033E", "U+033F", "U+0340", "U+0341", "U+0342", "U+0343",
     "U+0344", "U+0345", "U+0346", "U+0347", "U+0348", "U+0349", "U+034A", "U+034B",
     "U+034C", "U+034D", "U+034E", "U+034F", "U+0350", "U+0351", "U+0352", "U+0353",
     "U+0354", "U+0355", "U+0356", "U+0357", "U+0358", "U+0359", "U+035A", "U+035B",
     "U+035C", "U+035D", "U+035E", "U+035F", "U+0360", "U+0361", "U+0362", "U+0363",
     "U+0364", "U+0365", "U+0366", "U+0367", "U+0368", "U+0369", "U+036A", "U+036B",
     "U+036C", "U+036D", "U+036E", "U+036F", "U+0370", "U+0371", "U+0372", "U+0373",
     "U+0374", "U+0375", "U+0376", "U+0377", "U+037A", "U+037B", "U+037C", "U+037D",
     "U+037E", "U+037F", "U+0384", "U+0385", "U+0386", "U+0387", "U+0388", "U+0389",
     "U+038A", "U+038C", "U+038E", "U+038F", "U+0390", "U+0391", "U+0392", "U+0393",
     "U+0394", "U+0395", "U+0396", "U+0397", "U+0398", "U+0399", "U+039A", "U+039B",
     "U+039C", "U+039D", "U+039E", "U+039F", "U+03A0", "U+03A1", "U+03A3", "U+03A4",
     "U+03A5", "U+03A6", "U+03A7", "U+03A8", "U+03A9", "U+03AA", "U+03AB", "U+03AC",
     "U+03AD", "U+03AE", "U+03AF", "U+03B0", "U+03B1", "U+03B2", "U+03B3", "U+03B4",
     "U+03B5", "U+03B6", "U+03B7", "U+03B8", "U+03B9", "U+03BA", "U+03BB", "U+03BC",
     "U+03BD", "U+03BE", "U+03BF", "U+03C0", "U+03C1", "U+03C2", "U+03C3", "U+03C4",
     "U+03C5", "U+03C6", "U+03C7", "U+03C8", "U+03C9", "U+03CA", "U+03CB", "U+03CC",
     "U+03CD", "U+03CE", "U+03CF", "U+03D0", "U+03D1", "U+03D2", "U+03D3", "U+03D4",
     "U+03D5", "U+03D6", "U+03D7", "U+03D8", "U+03D9", "U+03DA", "U+03DB", "U+03DC",
     "U+03DD", "U+03DE", "U+03DF", "U+03E0", "U+03E1", "U+03E2", "U+03E3", "U+03E4",
     "U+03E5", "U+03E6", "U+03E7", "U+03E8", "U+03E9", "U+03EA", "U+03EB", "U+03EC",
     "U+03ED", "U+03EE", "U+03EF", "U+03F0", "U+03F1", "U+03F2", "U+03F3", "U+03F4",
     "U+03F5", "U+03F6", "U+03F7", "U+03F8", "U+03F9", "U+03FA", "U+03FB", "U+03FC",
     "U+03FD", "U+03FE", "U+03FF", "U+1680", "U+2000", "U+2001", "U+2002", "U+2003",
     "U+2004", "U+2005", "U+2006", "U+2007", "U+2008", "U+2009", "U+200A", "U+200B",
     "U+200C", "U+200D", "U+200E", "U+200F", "U+2010", "U+2011", "U+2012", "U+2013",
     "U+2014", "U+2015", "U+2016", "U+2017", "U+2018", "U+2019", "U+201A", "U+201B",
     "U+201C", "U+201D", "U+201E", "U+201F", "U+2020", "U+2021", "U+2022", "U+2023",
     "U+2024", "U+2025", "U+2026", "U+2027", "U+2028", "U+2029", "U+202A", "U+202B",
     "U+202C", "U+202D", "U+202E", "U+202F", "U+2030", "U+2031", "U+2032", "U+2033",
     "U+2034", "U+2035", "U+2036", "U+2037", "U+2038", "U+2039", "U+203A", "U+203B",
     "U+203C", "U+203D", "U+203E", "U+203F", "U+2040", "U+2041", "U+2042", "U+2043",
     "U+2044", "U+2045", "U+2046", "U+2047", "U+2048", "U+2049", "U+204A", "U+204B",
     "U+204C", "U+204D", "U+204E", "U+204F", "U+2050", "U+2051", "U+2052", "U+2053",
     "U+2054", "U+2055", "U+2056", "U+2057", "U+2058", "U+2059", "U+205A", "U+205B",
     "U+205C", "U+205D", "U+205E", "U+205F", "U+2060", "U+2061", "U+2062", "U+2063",
     "U+2064", "U+2066", "U+2067", "U+2068", "U+2069", "U+206A", "U+206B", "U+206C",
     "U+206D", "U+206E", "U+206F", "U+2100", "U+2101", "U+2102", "U+2103", "U+2104",
     "U+2105", "U+2106", "U+2107", "U+2108", "U+2109", "U+210A", "U+210B", "U+210C",
     "U+210D", "U+210E", "U+210F", "U+2110", "U+2111", "U+2112", "U+2113", "U+2114",
     "U+2115", "U+2116", "U+2117", "U+2118", "U+2119", "U+211A", "U+211B", "U+211C",
     "U+211D", "U+211E", "U+211F", "U+2120", "U+2121", "U+2122", "U+2123", "U+2124",
     "U+2125", "U+2126", "U+2127", "U+2128", "U+2129", "U+212A", "U+212B", "U+212C",
     "U+212D", "U+212E", "U+212F", "U+2130", "U+2131", "U+2132", "U+2133", "U+2134",
     "U+2135", "U+2136", "U+2137", "U+2138", "U+2139", "U+213A", "U+213B", "U+213C",
     "U+213D", "U+213E", "U+213F", "U+2140", "U+2141", "U+2142", "U+2143", "U+2144",
     "U+2145", "U+2146", "U+2147", "U+2148", "U+2149", "U+214A", "U+214B", "U+214C",
     "U+214D", "U+214E", "U+214F", "U+3000", "U+FEFF"
    }

\* String.prototype.toLowerCase maps a text code point by code point
\* through the lower-case mapping of the Unicode Character Database.
\* LowerMapping pairs every code point of Alphabet the mapping changes with
\* the text it becomes; only U+0130 becomes more than one code point.
LowerMapping ==
    {
     <<"A", <<"a">>>>, <<"B", <<"b">>>>, <<"C", <<"c">>>>,
     <<"D", <<"d">>>>, <<"E", <<"e">>>>, <<"F", <<"f">>>>,
     <<"G", <<"g">>>>, <<"H", <<"h">>>>, <<"I", <<"i">>>>,
     <<"J", <<"j">>>>, <<"K", <<"k">>>>, <<"L", <<"l">>>>,
     <<"M", <<"m">>>>, <<"N", <<"n">>>>, <<"O", <<"o">>>>,
     <<"P", <<"p">>>>, <<"Q", <<"q">>>>, <<"R", <<"r">>>>,
     <<"S", <<"s">>>>, <<"T", <<"t">>>>, <<"U", <<"u">>>>,
     <<"V", <<"v">>>>, <<"W", <<"w">>>>, <<"X", <<"x">>>>,
     <<"Y", <<"y">>>>, <<"Z", <<"z">>>>, <<"U+00C0", <<"U+00E0">>>>,
     <<"U+00C1", <<"U+00E1">>>>, <<"U+00C2", <<"U+00E2">>>>, <<"U+00C3", <<"U+00E3">>>>,
     <<"U+00C4", <<"U+00E4">>>>, <<"U+00C5", <<"U+00E5">>>>, <<"U+00C6", <<"U+00E6">>>>,
     <<"U+00C7", <<"U+00E7">>>>, <<"U+00C8", <<"U+00E8">>>>, <<"U+00C9", <<"U+00E9">>>>,
     <<"U+00CA", <<"U+00EA">>>>, <<"U+00CB", <<"U+00EB">>>>, <<"U+00CC", <<"U+00EC">>>>,
     <<"U+00CD", <<"U+00ED">>>>, <<"U+00CE", <<"U+00EE">>>>, <<"U+00CF", <<"U+00EF">>>>,
     <<"U+00D0", <<"U+00F0">>>>, <<"U+00D1", <<"U+00F1">>>>, <<"U+00D2", <<"U+00F2">>>>,
     <<"U+00D3", <<"U+00F3">>>>, <<"U+00D4", <<"U+00F4">>>>, <<"U+00D5", <<"U+00F5">>>>,
     <<"U+00D6", <<"U+00F6">>>>, <<"U+00D8", <<"U+00F8">>>>, <<"U+00D9", <<"U+00F9">>>>,
     <<"U+00DA", <<"U+00FA">>>>, <<"U+00DB", <<"U+00FB">>>>, <<"U+00DC", <<"U+00FC">>>>,
     <<"U+00DD", <<"U+00FD">>>>, <<"U+00DE", <<"U+00FE">>>>, <<"U+0100", <<"U+0101">>>>,
     <<"U+0102", <<"U+0103">>>>, <<"U+0104", <<"U+0105">>>>, <<"U+0106", <<"U+0107">>>>,
     <<"U+0108", <<"U+0109">>>>, <<"U+010A", <<"U+010B">>>>, <<"U+010C", <<"U+010D">>>>,
     <<"U+010E", <<"U+010F">>>>, <<"U+0110", <<"U+0111">>>>, <<"U+0112", <<"U+0113">>>>,
     <<"U+0114", <<"U+0115">>>>, <<"U+0116", <<"U+0117">>>>, <<"U+0118", <<"U+0119">>>>,
     <<"U+011A", <<"U+011B">>>>, <<"U+011C", <<"U+011D">>>>, <<"U+011E", <<"U+011F">>>>,
     <<"U+0120", <<"U+0121">>>>, <<"U+0122", <<"U+0123">>>>, <<"U+0124", <<"U+0125">>>>,
     <<"U+0126", <<"U+0127">>>>, <<"U+0128", <<"U+0129">>>>, <<"U+012A", <<"U+012B">>>>,
     <<"U+012C", <<"U+012D">>>>, <<"U+012E", <<"U+012F">>>>, <<"U+0130", <<"i", "U+0307">>>>,
     <<"U+0132", <<"U+0133">>>>, <<"U+0134", <<"U+0135">>>>, <<"U+0136", <<"U+0137">>>>,
     <<"U+0139", <<"U+013A">>>>, <<"U+013B", <<"U+013C">>>>, <<"U+013D", <<"U+013E">>>>,
     <<"U+013F", <<"U+0140">>>>, <<"U+0141", <<"U+0142">>>>, <<"U+0143", <<"U+0144">>>>,
     <<"U+0145", <<"U+0146">>>>, <<"U+0147", <<"U+0148">>>>, <<"U+014A", <<"U+014B">>>>,
     <<"U+014C", <<"U+014D">>>>, <<"U+014E", <<"U+014F">>>>, <<"U+0150", <<"U+0151">>>>,
     <<"U+0152", <<"U+0153">>>>, <<"U+0154", <<"U+0155">>>>, <<"U+0156", <<"U+0157">>>>,
     <<"U+0158", <<"U+0159">>>>, <<"U+015A", <<"U+015B">>>>, <<"U+015C", <<"U+015D">>>>,
     <<"U+015E", <<"U+015F">>>>, <<"U+0160", <<"U+0161">>>>, <<"U+0162", <<"U+0163">>>>,
     <<"U+0164", <<"U+0165">>>>, <<"U+0166", <<"U+0167">>>>, <<"U+0168", <<"U+0169">>>>,
     <<"U+016A", <<"U+016B">>>>, <<"U+016C", <<"U+016D">>>>, <<"U+016E", <<"U+016F">>>>,
     <<"U+0170", <<"U+0171">>>>, <<"U+0172", <<"U+0173">>>>, <<"U+0174", <<"U+0175">>>>,
     <<"U+0176", <<"U+0177">>>>, <<"U+0178", <<"U+00FF">>>>, <<"U+0179", <<"U+017A">>>>,
     <<"U+017B", <<"U+017C">>>>, <<"U+017D", <<"U+017E">>>>, <<"U+0370", <<"U+0371">>>>,
     <<"U+0372", <<"U+0373">>>>, <<"U+0376", <<"U+0377">>>>, <<"U+037F", <<"U+03F3">>>>,
     <<"U+0386", <<"U+03AC">>>>, <<"U+0388", <<"U+03AD">>>>, <<"U+0389", <<"U+03AE">>>>,
     <<"U+038A", <<"U+03AF">>>>, <<"U+038C", <<"U+03CC">>>>, <<"U+038E", <<"U+03CD">>>>,
     <<"U+038F", <<"U+03CE">>>>, <<"U+0391", <<"U+03B1">>>>, <<"U+0392", <<"U+03B2">>>>,
     <<"U+0393", <<"U+03B3">>>>, <<"U+0394", <<"U+03B4">>>>, <<"U+0395", <<"U+03B5">>>>,
     <<"U+0396", <<"U+03B6">>>>, <<"U+0397", <<"U+03B7">>>>, <<"U+0398", <<"U+03B8">>>>,
     <<"U+0399", <<"U+03B9">>>>, <<"U+039A", <<"U+03BA">>>>, <<"U+039B", <<"U+03BB">>>>,
     <<"U+039C", <<"U+03BC">>>>, <<"U+039D", <<"U+03BD">>>>, <<"U+039E", <<"U+03BE">>>>,
     <<"U+039F", <<"U+03BF">>>>, <<"U+03A0", <<"U+03C0">>>>, <<"U+03A1", <<"U+03C1">>>>,
     <<"U+03A3", <<"U+03C3">>>>, <<"U+03A4", <<"U+03C4">>>>, <<"U+03A5", <<"U+03C5">>>>,
     <<"U+03A6", <<"U+03C6">>>>, <<"U+03A7", <<"U+03C7">>>>, <<"U+03A8", <<"U+03C8">>>>,
     <<"U+03A9", <<"U+03C9">>>>, <<"U+03AA", <<"U+03CA">>>>, <<"U+03AB", <<"U+03CB">>>>,
     <<"U+03CF", <<"U+03D7">>>>, <<"U+03D8", <<"U+03D9">>>>, <<"U+03DA", <<"U+03DB">>>>,
     <<"U+03DC", <<"U+03DD">>>>, <<"U+03DE", <<"U+03DF">>>>, <<"U+03E0", <<"U+03E1">>>>,
     <<"U+03E2", <<"U+03E3">>>>, <<"U+03E4", <<"U+03E5">>>>, <<"U+03E6", <<"U+03E7">>>>,
     <<"U+03E8", <<"U+03E9">>>>, <<"U+03EA", <<"U+03EB">>>>, <<"U+03EC", <<"U+03ED">>>>,
     <<"U+03EE", <<"U+03EF">>>>, <<"U+03F4", <<"U+03B8">>>>, <<"U+03F7", <<"U+03F8">>>>,
     <<"U+03F9", <<"U+03F2">>>>, <<"U+03FA", <<"U+03FB">>>>, <<"U+03FD", <<"U+037B">>>>,
     <<"U+03FE", <<"U+037C">>>>, <<"U+03FF", <<"U+037D">>>>, <<"U+2126", <<"U+03C9">>>>,
     <<"U+212A", <<"k">>>>, <<"U+212B", <<"U+00E5">>>>, <<"U+2132", <<"U+214E">>>>
    }

LowerOf ==
    [c \in Alphabet |->
        IF \E p \in LowerMapping : p[1] = c
        THEN (CHOOSE p \in LowerMapping : p[1] = c)[2]
        ELSE <<c>>]

\* c.toLowerCase() for the one-character text c, c in Alphabet
ToLowerChar(c) == LowerOf[c]

\* The one rule of toLowerCase that reads the context: a capital sigma
\* becomes a final sigma when, skipping case-ignorable code points, a cased
\* letter precedes it and no cased letter follows it.
\* CasedLetter: the cased code points of Alphabet that are not
\* case-ignorable.
CasedLetter ==
    {
     "A", "B", "C", "D", "E", "F", "G", "H",
     "I", "J", "K", "L", "M", "N", "O", "P",
     "Q", "R", "S", "T", "U", "V", "W", "X",
     "Y", "Z", "a", "b", "c", "d", "e", "f",
     "g", "h", "i", "j", "k", "l", "m", "n",
     "o", "p", "q", "r", "s", "t", "u", "v",
     "w", "x", "y", "z", "U+00AA", "U+00B5", "U+00BA", "U+00C0",
     "U+00C1", "U+00C2", "U+00C3", "U+00C4", "U+00C5", "U+00C6", "U+00C7", "U+00C8",
     "U+00C9", "U+00CA", "U+00CB", "U+00CC", "U+00CD", "U+00CE", "U+00CF", "U+00D0",
     "U+00D1", "U+00D2", "U+00D3", "U+00D4", "U+00D5", "U+00D6", "U+00D8", "U+00D9",
     "U+00DA", "U+00DB", "U+00DC", "U+00DD", "U+00DE", "U+00DF", "U+00E0", "U+00E1",
     "U+00E2", "U+00E3", "U+00E4", "U+00E5", "U+00E6", "U+00E7", "U+00E8", "U+00E9",
     "U+00EA", "U+00EB", "U+00EC", "U+00ED", "U+00EE", "U+00EF", "U+00F0", "U+00F1",
     "U+00F2", "U+00F3", "U+00F4", "U+00F5", "U+00F6", "U+00F8", "U+00F9", "U+00FA",
     "U+00FB", "U+00FC", "U+00FD", "U+00FE", "U+00FF", "U+0100", "U+0101", "U+0102",
     "U+0103", "U+0104", "U+0105", "U+0106", "U+0107", "U+0108", "U+0109", "U+010A",
     "U+010B", "U+010C", "U+010D", "U+010E", "U+010F", "U+0110", "U+0111", "U+0112",
     "U+0113", "U+0114", "U+0115", "U+0116", "U+0117", "U+0118", "U+0119", "U+011A",
     "U+011B", "U+011C", "U+011D", "U+011E", "U+011F", "U+0120", "U+0121", "U+0122",
     "U+0123", "U+0124", "U+0125", "U+0126", "U+0127", "U+0128", "U+0129", "U+012A",
     "U+012B", "U+012C", "U+012D", "U+012E", "U+012F", "U+0130", "U+0131", "U+0132",
     "U+0133", "U+0134", "U+0135", "U+0136", "U+0137", "U+0138", "U+0139", "U+013A",
     "U+013B", "U+013C", "U+013D", "U+013E", "U+013F", "U+0140", "U+0141", "U+0142",
     "U+0143", "U+0144", "U+0145", "U+0146", "U+0147", "U+0148", "U+0149", "U+014A",
     "U+014B", "U+014C", "U+014D", "U+014E", "U+014F", "U+0150", "U+0151", "U+0152",
     "U+0153", "U+0154", "U+0155", "U+0156", "U+0157", "U+0158", "U+0159", "U+015A",
     "U+015B", "U+015C", "U+015D", "U+015E", "U+015F", "U+0160", "U+0161", "U+0162",
     "U+0163", "U+0164", "U+0165", "U+0166", "U+0167", "U+0168", "U+0169", "U+016A",
     "U+016B", "U+016C", "U+016D", "U+016E", "U+016F", "U+0170", "U+0171", "U+0172",
     "U+0173", "U+0174", "U+0175", "U+0176", "U+0177", "U+0178", "U+0179", "U+017A",
     "U+017B", "U+017C", "U+017D", "U+017E", "U+017F", "U+0370", "U+0371", "U+0372",
     "U+0373", "U+0376", "U+0377", "U+037B", "U+037C", "U+037D", "U+037F", "U+0386",
     "U+0388", "U+0389", "U+038A", "U+038C", "U+038E", "U+038F", "U+0390", "U+0391",
     "U+0392", "U+0393", "U+0394", "U+0395", "U+0396", "U+0397", "U+0398", "U+0399",
     "U+039A", "U+039B", "U+039C", "U+039D", "U+039E", "U+039F", "U+03A0", "U+03A1",
     "U+03A3", "U+03A4", "U+03A5", "U+03A6", "U+03A7", "U+03A8", "U+03A9", "U+03AA",
     "U+03AB", "U+03AC", "U+03AD", "U+03AE", "U+03AF", "U+03B0", "U+03B1", "U+03B2",
     "U+03B3", "U+03B4", "U+03B5", "U+03B6", "U+03B7", "U+03B8", "U+03B9", "U+03BA",
     "U+03BB", "U+03BC", "U+03BD", "U+03BE", "U+03BF", "U+03C0", "U+03C1", "U+03C2",
     "U+03C3", "U+03C4", "U+03C5", "U+03C6", "U+03C7", "U+03C8", "U+03C9", "U+03CA",
     "U+03CB", "U+03CC", "U+03CD", "U+03CE", "U+03CF", "U+03D0", "U+03D1", "U+03D2",
     "U+03D3", "U+03D4", "U+03D5", "U+03D6", "U+03D7", "U+03D8", "U+03D9", "U+03DA",
     "U+03DB", "U+03DC", "U+03DD", "U+03DE", "U+03DF", "U+03E0", "U+03E1", "U+03E2",
     "U+03E3", "U+03E4", "U+03E5", "U+03E6", "U+03E7", "U+03E8", "U+03E9", "U+03EA",
     "U+03EB", "U+03EC", "U+03ED", "U+03EE", "U+03EF", "U+03F0", "U+03F1", "U+03F2",
     "U+03F3", "U+03F4", "U+03F5", "U+03F7", "U+03F8", "U+03F9", "U+03FA", "U+03FB",
     "U+03FC", "U+03FD", "U+03FE", "U+03FF", "U+2102", "U+2107", "U+210A", "U+210B",
     "U+210C", "U+210D", "U+210E", "U+210F", "U+2110", "U+2111", "U+2112", "U+2113",
     "U+2115", "U+2119", "U+211A", "U+211B", "U+211C", "U+211D", "U+2124", "U+2126",
     "U+2128", "U+212A", "U+212B", "U+212C", "U+212D", "U+212F", "U+2130", "U+2131",
     "U+2132", "U+2133", "U+2134", "U+2139", "U+213C", "U+213D", "U+213E", "U+213F",
     "U+2145", "U+2146", "U+2147", "U+2148", "U+2149", "U+214E"
    }

\* CaseIgnorable: the code points of Alphabet the scan for a cased letter
\* skips
CaseIgnorable ==
    {
     "'", ".", ":", "^", "U+0060", "U+00A8", "U+00AD", "U+00AF",
     "U+00B4", "U+00B7", "U+00B8", "U+02B0", "U+02B1", "U+02B2", "U+02B3", "U+02B4",
     "U+02B5", "U+02B6", "U+02B7", "U+02B8", "U+02B9", "U+02BA", "U+02BB", "U+02BC",
     "U+02BD", "U+02BE", "U+02BF", "U+02C0", "U+02C1", "U+02C2", "U+02C3", "U+02C4",
     "U+02C5", "U+02C6", "U+02C7", "U+02C8", "U+02C9", "U+02CA", "U+02CB", "U+02CC",
     "U+02CD", "U+02CE", "U+02CF", "U+02D0", "U+02D1", "U+02D2", "U+02D3", "U+02D4",
     "U+02D5", "U+02D6", "U+02D7", "U+02D8", "U+02D9", "U+02DA", "U+02DB", "U+02DC",
     "U+02DD", "U+02DE", "U+02DF", "U+02E0", "U+02E1", "U+02E2", "U+02E3", "U+02E4",
     "U+02E5", "U+02E6", "U+02E7", "U+02E8", "U+02E9", "U+02EA", "U+02EB", "U+02EC",
     "U+02ED", "U+02EE", "U+02EF", "U+02F0", "U+02F1", "U+02F2", "U+02F3", "U+02F4",
     "U+02F5", "U+02F6", "U+02F7", "U+02F8", "U+02F9", "U+02FA", "U+02FB", "U+02FC",
     "U+02FD", "U+02FE", "U+02FF", "U+0300", "U+0301", "U+0302", "U+0303", "U+0304",
     "U+0305", "U+0306", "U+0307", "U+0308", "U+0309", "U+030A", "U+030B", "U+030C",
     "U+030D", "U+030E", "U+030F", "U+0310", "U+0311", "U+0312", "U+0313", "U+0314",
     "U+0315", "U+0316", "U+0317", "U+0318", "U+0319", "U+031A", "U+031B", "U+031C",
     "U+031D", "U+031E", "U+031F", "U+0320", "U+0321", "U+0322", "U+0323", "U+0324",
     "U+0325", "U+0326", "U+0327", "U+0328", "U+0329", "U+032A", "U+032B", "U+032C",
     "U+032D", "U+032E", "U+032F", "U+0330", "U+0331", "U+0332", "U+0333", "U+0334",
     "U+0335", "U+0336", "U+0337", "U+0338", "U+0339", "U+033A", "U+033B", "U+033C",
     "U+033D", "U+033E", "U+033F", "U+0340", "U+0341", "U+0342", "U+0343", "U+0344",
     "U+0345", "U+0346", "U+0347", "U+0348", "U+0349", "U+034A", "U+034B", "U+034C",
     "U+034D", "U+034E", "U+034F", "U+0350", "U+0351", "U+0352", "U+0353", "U+0354",
     "U+0355", "U+0356", "U+0357", "U+0358", "U+0359", "U+035A", "U+035B", "U+035C",
     "U+035D", "U+035E", "U+035F", "U+0360", "U+0361", "U+0362", "U+0363", "U+0364",
     "U+0365", "U+0366", "U+0367", "U+0368", "U+0369", "U+036A", "U+036B", "U+036C",
     "U+036D", "U+036E", "U+036F", "U+0374", "U+0375", "U+037A", "U+0384", "U+0385",
     "U+0387", "U+200B", "U+200C", "U+200D", "U+200E", "U+200F", "U+2018", "U+2019",
     "U+2024", "U+2027", "U+202A", "U+202B", "U+202C", "U+202D", "U+202E", "U+2060",
     "U+2061", "U+2062", "U+2063", "U+2064", "U+2066", "U+2067", "U+2068", "U+2069",
     "U+206A", "U+206B", "U+206C", "U+206D", "U+206E", "U+206F", "U+FEFF"
    }

SigmaCapital == "U+03A3"
SigmaFinal == "U+03C2"

Final_Sigma(s, k) ==
    LET before == {i \in 1..(k - 1) : s[i] \notin CaseIgnorable}
        after == {i \in (k + 1)..Len(s) : s[i] \notin CaseIgnorable}
    IN  /\ before # {}
        /\ s[CHOOSE i \in before : \A j \in before : j <= i] \in CasedLetter
        /\ \/ after = {}
           \/ s[CHOOSE i \in after : \A j \in after : i <= j] \notin CasedLetter

RECURSIVE LowerFrom(_, _)
LowerFrom(s, k) ==
    IF k > Len(s) THEN <<>>
    ELSE (IF s[k] = SigmaCapital /\ Final_Sigma(s, k)
          THEN <<SigmaFinal>>
          ELSE ToLowerChar(s[k])) \o LowerFrom(s, k + 1)

\* String.prototype.toLowerCase, on a text over Alphabet
toLowerCase(s) == LowerFrom(s, 1)

\* String.prototype.includes
includes(s, pat) ==
    \E i \in 0..(Len(s) - Len(pat)) : SubSeq(s, i + 1, i + Len(pat)) = pat

RECURSIVE TrimStart(_)
TrimStart(s) ==
    IF s # <<>> /\ Head(s) \in WhiteSpace THEN TrimStart(Tail(s)) ELSE s

RECURSIVE TrimEnd(_)
TrimEnd(s) ==
    IF s # <<>> /\ s[Len(s)] \in WhiteSpace
    THEN TrimEnd(SubSeq(s, 1, Len(s) - 1))
    ELSE s

\* faulty variant: the emptiness test without the trim
trim_none(s) == s

\* String.prototype.trim
trim(s) == TrimEnd(TrimStart(s))

\* the keywords of generateAIResponse
KwReplace == <<"r","e","p","l","a","c","e">>
KwChangeScene == <<"c","h","a","n","g","e"," ","s","c","e","n","e">>
KwScript == <<"s","c","r","i","p","t">>
KwText == <<"t","e","x","t">>

\* the fixed literals of the source
GreetingText == <<"What would you like to change about your video?">>
SceneReplyText ==
    <<"I can help replace that scene. Here are 3 alternatives I've generated based on your video style:">>
ScriptReplyText ==
    <<"Here's the current script for this scene. You can edit it directly:">>
MenuReplyText ==
    <<"I can help you with that. Would you like to: 1) Change scenes, 2) Edit script, or 3) Adjust the storyboard?">>
DefaultScript ==
    <<"Our product helps customers achieve their goals faster and with less effort than traditional methods.">>
\* faulty variant: one option short
SceneOptions_two ==
    << [type |-> "scene", thumbnail |-> "https://via.placeholder.com/160x90/444/fff?text=Option+1"],
       [type |-> "scene", thumbnail |-> "https://via.placeholder.com/160x90/444/fff?text=Option+2"] >>

SceneOptions ==
    << [type |-> "scene", thumbnail |-> "https://via.placeholder.com/160x90/444/fff?text=Option+1"],
       [type |-> "scene", thumbnail |-> "https://via.placeholder.com/160x90/444/fff?text=Option+2"],
       [type |-> "scene", thumbnail |-> "https://via.placeholder.com/160x90/444/fff?text=Option+3"] >>


-----------------------------------------------------------------------------
(* Catalogs and the inputs of the model *)

\* ChatEditor: const scenes
scenes == << [id |-> 1, time |-> "0:00-0:04"],
             [id |-> 2, time |-> "0:05-0:09"],
             [id |-> 3, time |-> "0:10-0:14"] >>
SceneIds == {scenes[i].id : i \in 1..Len(scenes)}

\* the tools of the three tool buttons
Tools == {"scenes", "audio", "settings"}

\* AudioPanel: const voiceOptions, const musicTracks (their ids)
VoiceIds == {"v1", "v2", "v3", "v4", "v5", "v6"}
TrackIds == {"m1", "m2", "m3", "m4", "m5"}
AudioTabs == {"voice", "music"}

\* what the user types into the chat input
TxtEmpty == <<>>
\* space, tab, carriage return, form feed, no-break space
TxtBlank == <<" ", "\t", "\r", "\f", "U+00A0">>
TxtChangeScene == <<"c","h","a","n","g","e"," ","s","c","e","n","e">>
TxtReplaceText == <<"R","e","p","l","a","c","e"," ","t","e","x","t">>
TxtMyScript == <<"m","y"," ","S","C","R","I","P","T">>
TxtHello == <<" ","h","e","l","l","o">>
InputTexts == {TxtEmpty, TxtBlank, TxtChangeScene, TxtMyScript, TxtHello}

\* further inputs for the response simulator
TxtText == <<"T","e","x","t">>
TxtContext == <<"c","o","n","t","e","x","t">>
TxtChangeSceneUp == <<"C","H","A","N","G","E"," ","S","C","E","N","E">>
TxtChangeScene2 == <<"c","h","a","n","g","e"," "," ","s","c","e","n","e">>
TxtScriptReplace == <<"s","c","r","i","p","t"," ","r","e","p","l","a","c","e","d">>
TxtPleaseReplace ==
    <<"p","l","e","a","s","e"," ","r","e","p","l","a","c","e"," ",
      "t","h","i","s"," ","s","c","e","n","e">>
\* a blank text without a space or a tab
TxtLineEnds == <<"\f", "\r", "\n", "U+2028", "U+3000", "U+FEFF", "U+000B">>
\* a zero-width space (U+200B) is not white space for trim: the text is sent
TxtZeroWidth == <<"U+200B">>
\* texts with letters outside ASCII: E acute in "REPLACE", dotted capital I
\* in "SCRIPT" (it lowers to i and a combining dot, which splits the
\* keyword), a Greek word ending in sigma, and a keyword after an accent
TxtReplaceAcute == <<"R","U+00C9","P","L","A","C","E">>
TxtScriptDotted == <<"S","C","R","U+0130","P","T">>
TxtAlphaSigma == <<"U+0391","U+03A3">>
TxtAcuteText == <<"U+00C9"," ","T","E","X","T">>
SimTexts ==
    {TxtEmpty, TxtReplaceText, TxtText, TxtContext, TxtChangeSceneUp,
     TxtChangeScene2, TxtScriptReplace, TxtPleaseReplace,
     TxtLineEnds, TxtZeroWidth,
     TxtReplaceAcute, TxtScriptDotted, TxtAlphaSigma, TxtAcuteText}

\* inputs sent again and again on the clock: one for each branch of the
\* response simulator, and one that holds a keyword of two branches
TimedTexts == {TxtPleaseReplace, TxtText, TxtZeroWidth, TxtScriptReplace}

\* what the user types into the voice-over script
TxtNewScript == <<"N","e","w">>
ScriptTexts == {DefaultScript, TxtNewScript}

-----------------------------------------------------------------------------
(* ChatEditor *)

\* useState initial value of messages
InitialMessages ==
    << [id |-> 1, type |-> "ai", content |-> GreetingText, timestamp |-> 0] >>

\* setTimeout(..., 1000): the delay of the reply, in ms
ReplyDelay == 1000

\* handleSendMessage: const userMessage; t is what new Date() reads
userMessage(msgs, text, t) ==
    [id |-> Len(msgs) + 1, type |-> "user", content |-> text, timestamp |-> t]

\* faulty variant: the reply given the id of the user message
aiResponseId_same(msgs) == Len(msgs) + 1

\* the id every branch of generateAIResponse gives its reply; msgs is the
\* messages value captured by the closure
aiResponseId(msgs) == Len(msgs) + 2

\* faulty variant: the script branch tested before the scene branch
aiResponse_scriptFirst(userInput, msgs, t) ==
    LET lowerInput == toLowerCase(userInput) IN
    IF includes(lowerInput, KwScript) \/ includes(lowerInput, KwText)
    THEN [id |-> aiResponseId(msgs), type |-> "ai",
          content |-> ScriptReplyText, script |-> DefaultScript,
          timestamp |-> t]
    ELSE IF includes(lowerInput, KwReplace) \/ includes(lowerInput, KwChangeScene)
    THEN [id |-> aiResponseId(msgs), type |-> "ai",
          content |-> SceneReplyText, options |-> SceneOptions,
          timestamp |-> t]
    ELSE [id |-> aiResponseId(msgs), type |-> "ai",
          content |-> MenuReplyText, timestamp |-> t]

\* faulty variant: the first reply of a session is always the menu
aiResponse_firstIsMenu(userInput, msgs, t) ==
    LET lowerInput == toLowerCase(userInput) IN
    IF Len(msgs) > 1 /\ (includes(lowerInput, KwReplace)
                         \/ includes(lowerInput, KwChangeScene))
    THEN [id |-> aiResponseId(msgs), type |-> "ai",
          content |-> SceneReplyText, options |-> SceneOptions,
          timestamp |-> t]
    ELSE IF Len(msgs) > 1 /\ (includes(lowerInput, KwScript)
                              \/ includes(lowerInput, KwText))
    THEN [id |-> aiResponseId(msgs), type |-> "ai",
          content |-> ScriptReplyText, script |-> DefaultScript,
          timestamp |-> t]
    ELSE [id |-> aiResponseId(msgs), type |-> "ai",
          content |-> MenuReplyText, timestamp |-> t]

\* generateAIResponse: the aiResponse built by the timer callback; msgs is
\* the messages value the closure captured, t what new Date() reads when the
\* callback runs
aiResponse(userInput, msgs, t) ==
    LET lowerInput == toLowerCase(userInput) IN
    IF includes(lowerInput, KwReplace) \/ includes(lowerInput, KwChangeScene)
    THEN [id |-> aiResponseId(msgs), type |-> "ai",
          content |-> SceneReplyText, options |-> SceneOptions,
          timestamp |-> t]
    ELSE IF includes(lowerInput, KwScript) \/ includes(lowerInput, KwText)
    THEN [id |-> aiResponseId(msgs), type |-> "ai",
          content |-> ScriptReplyText, script |-> DefaultScript,
          timestamp |-> t]
    ELSE [id |-> aiResponseId(msgs), type |-> "ai",
          content |-> MenuReplyText, timestamp |-> t]

\* faulty variant: the new message put in front of the log
SendUpdate_prepend(msgs, m) == <<m>> \o msgs

\* handleSendMessage: setMessages([...messages, userMessage])
SendUpdate(msgs, m) == Append(msgs, m)

\* faulty variant: the reply appended to the log the closure captured
ReplyUpdate_stale(prev, captured, r) == Append(captured, r)

\* generateAIResponse: setMessages(prev => [...prev, aiResponse]); prev is
\* the state when the callback runs, captured is the messages value the
\* closure holds
ReplyUpdate(prev, captured, r) == Append(prev, r)

\* generateAIResponse: setTimeout(..., 1000), the closure it creates; at is
\* what new Date() reads at the call, due that time plus the delay
ScheduleReply(timers, userInput, msgs, at) ==
    Append(timers, [userInput |-> userInput, messages |-> msgs,
                    due |-> at + ReplyDelay])

\* faulty variant: the chat/scene view rendered beside an open panel
ChatViewRendered_always == TRUE

\* the conditional render {activeToolPanel ? getToolPanel() : <>...</>}: the
\* chat input, the send button, the thumbnails and the tool buttons exist
\* only while no panel is open
ChatViewRendered == activeToolPanel = Null

\* faulty variant: the input kept after a send
InputAfterSend_kept(text) == text

\* handleSendMessage: setInput('')
InputAfterSend(text) == <<>>

\* faulty variant: the timer created last fires first
DueTimer_last(timers) == Len(timers)

\* the pending timer that fires next: every reply timer has the same delay
\* of 1000 ms, so the one created first
DueTimer(timers) == 1

\* a sequence without its i-th element
RemoveAt(seq, i) == SubSeq(seq, 1, i - 1) \o SubSeq(seq, i + 1, Len(seq))

\* textarea onChange: setInput(e.target.value)
handleInputChange(v) ==
    /\ ChatViewRendered
    /\ v # input
    /\ input' = v
    /\ lastEvent' = [op |-> "handleInputChange"]
    /\ UNCHANGED <<messages, activeScene, activeToolPanel, replyTimers,
                   audioVars, sends, now, fired>>

\* handleSendMessage (send button, or Enter through handleKeyDown)
handleSendMessage ==
    /\ ChatViewRendered
    /\ IF trim(input) = <<>>
       THEN /\ lastEvent' = [op |-> "handleSendMessage", accepted |-> FALSE,
                             afterAccepted |->
                                 (/\ lastEvent.op = "handleSendMessage"
                                  /\ lastEvent.accepted)]
            /\ UNCHANGED <<messages, input, replyTimers, sends>>
       ELSE /\ sends < MaxSends
            /\ messages' = SendUpdate(messages,
                                      userMessage(messages, input, now))
            /\ input' = InputAfterSend(input)
            /\ replyTimers' = ScheduleReply(replyTimers, input, messages, now)
            /\ sends' = sends + 1
            /\ lastEvent' = [op |-> "handleSendMessage", accepted |-> TRUE,
                             afterAccepted |->
                                 (/\ lastEvent.op = "handleSendMessage"
                                  /\ lastEvent.accepted)]
    /\ UNCHANGED <<activeScene, activeToolPanel, audioVars, now, fired>>

\* the later of two times
Later(a, b) == IF a >= b THEN a ELSE b

\* the callback generateAIResponse passed to setTimeout.  The timer is never
\* cleared and the callback has no guard.  It runs once the runtime's timer
\* is due: the step lets the time until then pass.  new Date() in the
\* callback reads the due time less early ms (the timer clock and the clock
\* new Date() reads are not the same), and never less than it read before.
ReplyTimerFire(early) ==
    /\ replyTimers # <<>>
    /\ LET d == DueTimer(replyTimers)
           t == replyTimers[d]
           at == Later(now, t.due - early)
       IN  /\ now' = at
           /\ messages' = ReplyUpdate(messages, t.messages,
                                      aiResponse(t.userInput, t.messages, at))
           /\ replyTimers' = RemoveAt(replyTimers, d)
    /\ fired' = fired + 1
    /\ lastEvent' = [op |-> "ReplyTimerFire"]
    /\ UNCHANGED <<input, activeScene, activeToolPanel, audioVars, sends>>

\* time passes with no event: the clock moves on by one ms
Tick ==
    /\ now % ReplyDelay < MaxDrift
    /\ now' = now + 1
    /\ lastEvent' = [op |-> "Tick"]
    /\ UNCHANGED <<sessionVars, replyTimers, audioVars, sends, fired>>

\* faulty variant: the thumbnail's position in the list taken for its id
SceneClickUpdate_index(sceneId) == activeScene' = sceneId - 1

\* handleSceneClick: setActiveScene(sceneId)
SceneClickUpdate(sceneId) == activeScene' = sceneId

\* handleSceneClick, from a scene thumbnail
handleSceneClick(sceneId) ==
    /\ ChatViewRendered
    /\ SceneClickUpdate(sceneId)
    /\ lastEvent' = [op |-> "handleSceneClick", id |-> sceneId]
    /\ UNCHANGED <<messages, input, activeToolPanel, replyTimers,
                   audioVars, sends, now, fired>>

\* faulty variant: the applied text written into the draft of the first
\* reply that carries a script
ApplyScriptUpdate_saves(updatedScript) ==
    /\ messages' =
          LET i == CHOOSE k \in 1..Len(messages) :
                     /\ "script" \in DOMAIN messages[k]
                     /\ \A j \in 1..(k - 1) : "script" \notin DOMAIN messages[j]
          IN  [messages EXCEPT ![i].script = updatedScript]
    /\ UNCHANGED <<input, activeScene, activeToolPanel>>

\* what handleApplyScript does to the ChatEditor state: it only logs
ApplyScriptUpdate(updatedScript) == UNCHANGED sessionVars

\* handleApplyScript, from the script editor of a reply that carries a script
handleApplyScript(updatedScript) ==
    /\ ChatViewRendered
    /\ \E i \in 1..Len(messages) : "script" \in DOMAIN messages[i]
    /\ ApplyScriptUpdate(updatedScript)
    /\ lastEvent' = [op |-> "handleApplyScript", text |-> updatedScript]
    /\ UNCHANGED <<replyTimers, audioVars, sends, now, fired>>


\* faulty variant: the panel state not created anew on open
MountAudioPanel_keep == UNCHANGED audioVars

\* the AudioPanel instance created when the panel is rendered (its useState
\* initial values)
MountAudioPanel ==
    /\ activeTab' = "voice"
    /\ playing' = Null
    /\ script' = DefaultScript
    /\ UNCHANGED voiceTimers

\* the AudioPanel instance is discarded with its state; the timers it
\* started stay pending, and their setPlaying reaches no mounted instance
UnmountAudioPanel ==
    /\ activeTab' = Null
    /\ playing' = Null
    /\ script' = <<>>
    /\ voiceTimers' = [i \in 1..Len(voiceTimers) |->
                          [voiceTimers[i] EXCEPT !.mounted = FALSE]]

\* handleToolClick, from a tool button
handleToolClick(tool) ==
    /\ ChatViewRendered
    /\ activeToolPanel' = tool
    /\ IF tool = "audio" THEN MountAudioPanel ELSE UNCHANGED audioVars
    /\ lastEvent' = [op |-> "handleToolClick", tool |-> tool]
    /\ UNCHANGED <<messages, input, activeScene, replyTimers, sends, now, fired>>

\* faulty variant: closing a panel also clears the draft
CloseUpdate_clearsDraft ==
    /\ activeToolPanel' = Null
    /\ input' = <<>>
    /\ UNCHANGED <<messages, activeScene>>

\* faulty variant: the close handler written as a toggle
CloseUpdate_toggle ==
    /\ activeToolPanel' = IF activeToolPanel = Null THEN "scenes" ELSE Null
    /\ UNCHANGED <<messages, input, activeScene>>

\* what handleCloseToolPanel does to the ChatEditor state
CloseUpdate ==
    /\ activeToolPanel' = Null
    /\ UNCHANGED <<messages, input, activeScene>>

\* handleCloseToolPanel, the onClose every panel holds; the handler itself
\* has no guard
handleCloseToolPanel ==
    /\ CloseUpdate
    /\ IF activeToolPanel = "audio"
       THEN UnmountAudioPanel
       ELSE UNCHANGED audioVars
    /\ lastEvent' = [op |-> "handleCloseToolPanel", was |-> activeToolPanel]
    /\ UNCHANGED <<replyTimers, sends, now, fired>>

-----------------------------------------------------------------------------
(* AudioPanel *)

\* tab buttons: setActiveTab
setActiveTab(tab) ==
    /\ activeToolPanel = "audio"
    /\ tab # activeTab
    /\ activeTab' = tab
    /\ lastEvent' = [op |-> "setActiveTab"]
    /\ UNCHANGED <<sessionVars, replyTimers, playing, script, voiceTimers,
                   sends, now, fired>>

\* handlePlayVoice: setTimeout(..., 3000), the timer it creates
ScheduleAutoStop(timers, voiceId) ==
    Append(timers, [voiceId |-> voiceId, mounted |-> TRUE])

\* handlePlayVoice, from a voice play button (voice tab)
handlePlayVoice(voiceId) ==
    /\ activeToolPanel = "audio"
    /\ activeTab = "voice"
    /\ IF playing = voiceId
       THEN /\ playing' = Null
            /\ UNCHANGED voiceTimers
       ELSE /\ Len(voiceTimers) < MaxVoiceTimers
            /\ playing' = voiceId
            /\ voiceTimers' = ScheduleAutoStop(voiceTimers, voiceId)
    /\ lastEvent' = [op |-> "handlePlayVoice", id |-> voiceId, was |-> playing]
    /\ UNCHANGED <<sessionVars, replyTimers, activeTab, script, sends, now, fired>>

\* faulty variant: the play button stops whatever is playing
PlayMusicUpdate_stopAny(cur, trackId) == IF cur # Null THEN Null ELSE trackId

\* handlePlayMusic: the value it passes to setPlaying
PlayMusicUpdate(cur, trackId) == IF cur = trackId THEN Null ELSE trackId

\* handlePlayMusic, from a track play button (music tab)
handlePlayMusic(trackId) ==
    /\ activeToolPanel = "audio"
    /\ activeTab = "music"
    /\ playing' = PlayMusicUpdate(playing, trackId)
    /\ lastEvent' = [op |-> "handlePlayMusic", id |-> trackId, was |-> playing]
    /\ UNCHANGED <<sessionVars, replyTimers, activeTab, script, voiceTimers,
                   sends, now, fired>>

\* handleScriptChange, from the script textarea (voice tab)
handleScriptChange(v) ==
    /\ activeToolPanel = "audio"
    /\ activeTab = "voice"
    /\ v # script
    /\ script' = v
    /\ lastEvent' = [op |-> "handleScriptChange"]
    /\ UNCHANGED <<sessionVars, replyTimers, activeTab, playing, voiceTimers,
                   sends, now, fired>>

\* handleMusicUpload, from the file input (music tab): it only logs
handleMusicUpload ==
    /\ activeToolPanel = "audio"
    /\ activeTab = "music"
    /\ lastEvent' = [op |-> "handleMusicUpload"]
    /\ UNCHANGED <<sessionVars, replyTimers, audioVars, sends, now, fired>>

\* the callback handlePlayVoice passed to setTimeout: setPlaying(null)
VoiceTimerFire ==
    /\ voiceTimers # <<>>
    /\ LET t == Head(voiceTimers) IN
       /\ playing' = IF t.mounted THEN Null ELSE playing
       /\ lastEvent' = [op |-> "VoiceTimerFire", id |-> t.voiceId,
                        mounted |-> t.mounted, was |-> playing]
    /\ voiceTimers' = Tail(voiceTimers)
    /\ UNCHANGED <<sessionVars, replyTimers, activeTab, script, sends, now, fired>>

-----------------------------------------------------------------------------
(* Specifications *)

Init ==
    /\ messages = InitialMessages
    /\ input = <<>>
    /\ activeScene = 0
    /\ activeToolPanel = Null
    /\ replyTimers = <<>>
    /\ activeTab = Null
    /\ playing = Null
    /\ script = <<>>
    /\ voiceTimers = <<>>
    /\ now = 0
    /\ sends = 0
    /\ fired = 0
    /\ lastEvent = [op |-> "init"]

\* the editing session: chat, scenes and the panel switch
Next ==
    \/ \E v \in InputTexts : handleInputChange(v)
    \/ handleSendMessage
    \/ ReplyTimerFire(0)
    \/ \E sceneId \in SceneIds : handleSceneClick(sceneId)
    \/ \E tool \in Tools : handleToolClick(tool)
    \/ handleCloseToolPanel
    \/ \E v \in ScriptTexts : handleApplyScript(v)

Spec == Init /\ [][Next]_vars

\* the Audio panel: opened, used and closed
NextAudio ==
    \/ \E tool \in Tools : handleToolClick(tool)
    \/ handleCloseToolPanel
    \/ \E tab \in AudioTabs : setActiveTab(tab)
    \/ \E voiceId \in VoiceIds : handlePlayVoice(voiceId)
    \/ \E trackId \in TrackIds : handlePlayMusic(trackId)
    \/ \E v \in ScriptTexts : handleScriptChange(v)
    \/ handleMusicUpload
    \/ VoiceTimerFire

SpecAudio == Init /\ [][NextAudio]_vars


\* the response simulator: typing, sending, replies arriving
NextSim ==
    \/ \E v \in SimTexts : handleInputChange(v)
    \/ (sends < MaxSimSends /\ handleSendMessage)
    \/ ReplyTimerFire(0)

SpecSim == Init /\ [][NextSim]_vars

\* the response simulator on the clock: the same texts sent again at other
\* times, with time passing between the events and callbacks reading the
\* clock short of their due time; in the other specifications every
\* callback reads its due time
NextTimed ==
    \/ \E v \in TimedTexts : handleInputChange(v)
    \/ (sends < MaxSimSends /\ handleSendMessage)
    \/ \E early \in 0..MaxEarly : ReplyTimerFire(early)
    \/ Tick

SpecTimed == Init /\ [][NextTimed]_vars


\* the user waits for each reply: a send is accepted only when no reply is
\* pending
NextSequential ==
    \/ \E v \in InputTexts : handleInputChange(v)
    \/ ((replyTimers = <<>> \/ trim(input) = <<>>) /\ handleSendMessage)
    \/ ReplyTimerFire(0)
    \/ \E tool \in Tools : handleToolClick(tool)
    \/ handleCloseToolPanel

SpecSequential == Init /\ [][NextSequential]_vars

-----------------------------------------------------------------------------
(* Properties *)

IsUser(m) == m.type = "user"
IsAi(m) == m.type = "ai"

\* the user messages of the log, in order
UserMessages == SelectSeq(messages, IsUser)
\* the assistant messages appended after the greeting, in order
Replies == SelectSeq(Tail(messages), IsAi)

IsPrefix(s, t) == Len(s) <= Len(t) /\ SubSeq(t, 1, Len(s)) = s

\* a text that is empty or holds white space only
IsBlank(s) == \A i \in 1..Len(s) : s[i] \in WhiteSpace

\* a message without its id and its timestamp
Content(m) == [f \in DOMAIN m \ {"id", "timestamp"} |-> m[f]]

\* C1: every accepted send has put exactly one user message in the log at
\* once, and exactly one reply is in the log or still pending for it; once
\* no reply timer is pending the log holds one reply per accepted send.
C1_OneUserOneReplyPerSend ==
    /\ Len(UserMessages) = sends
    /\ Len(Replies) + Len(replyTimers) = sends
    /\ Len(messages) = Len(InitialMessages) + Len(UserMessages) + Len(Replies)
    /\ (replyTimers = <<>> => Len(Replies) = sends)
    /\ (lastEvent.op = "handleSendMessage" /\ lastEvent.accepted
            => IsUser(messages[Len(messages)]))

\* C1 witness: two sends were made before any reply arrived, and every
\* reply has arrived since.
C1_Witness ==
    /\ sends >= 2
    /\ replyTimers = <<>>
    /\ Len(messages) >= 5
    /\ IsUser(messages[2]) /\ IsUser(messages[3])
    /\ Len(Replies) = sends

\* C2: message ids are strictly increasing along the log.
C2_IdsStrictlyIncreasing ==
    \A i, j \in 1..Len(messages) : i < j => messages[i].id < messages[j].id

\* C3: a send whose input is empty or whitespace-only appends nothing,
\* schedules nothing and leaves the session as it was.
C3_BlankSendIsNoOp ==
    [][ (lastEvent'.op = "handleSendMessage" /\ IsBlank(input))
          => UNCHANGED <<messages, input, activeScene, activeToolPanel,
                         replyTimers>> ]_vars

\* C3 witness: a send ran on a whitespace-only input while a reply was in
\* the log, and the input is still there.
C3_Witness ==
    /\ lastEvent.op = "handleSendMessage"
    /\ ~lastEvent.accepted
    /\ input = TxtBlank
    /\ Len(messages) > 1

\* the state of the C4 scenario: a fresh session, "change scene" sent once,
\* its reply arrived
C4_Scenario ==
    /\ sends = 1
    /\ replyTimers = <<>>
    /\ \E i \in 1..Len(messages) :
          IsUser(messages[i]) /\ messages[i].content = TxtChangeScene

C4_ThreeOptions ==
    LET r == messages[Len(messages)] IN
    /\ IsAi(r)
    /\ "options" \in DOMAIN r
    /\ Len(r.options) = 3
    /\ \A k \in 1..Len(r.options) : r.options[k].type = "scene"

\* C4 as stated: after the scenario the reply carries 3 scene options and
\* the session holds 2 messages.
C4_Original == C4_Scenario => (C4_ThreeOptions /\ Len(messages) = 2)

\* C4 as amended: after the scenario the reply carries 3 scene options and
\* the session holds 3 messages: the greeting, the user message, the reply.
C4_Amended ==
    C4_Scenario =>
        /\ C4_ThreeOptions
        /\ Len(messages) = 3
        /\ messages[1] = InitialMessages[1]
        /\ IsUser(messages[2])

\* C4 witness: the scenario has been played.
C4_Witness == C4_Scenario /\ Len(messages) = 3

\* C5: in every step the log before the step is a prefix of the log after.
C5_AppendOnly == [][IsPrefix(messages, messages')]_vars

\* C5 witness: the log has grown by sends and by replies, and a panel
\* handler ran after that.
C5_Witness ==
    /\ Len(messages) >= 5
    /\ Len(Replies) >= 2
    /\ lastEvent.op = "handleCloseToolPanel"

\* C6: active_panel is none or one of the three panels, the close handler
\* leaves no panel open, and run while no panel is open it changes nothing.
C6_OnePanelCloseIdempotent ==
    [][ /\ activeToolPanel' \in Tools \cup {Null}
        /\ (lastEvent'.op = "handleCloseToolPanel" =>
              /\ activeToolPanel' = Null
              /\ (activeToolPanel = Null =>
                    UNCHANGED <<sessionVars, replyTimers, audioVars, sends, now, fired>>))
      ]_vars

\* C6 witness: the close handler ran while no panel was open, in a session
\* that has a draft, a selected scene and a pending reply.
C6_Witness ==
    /\ lastEvent.op = "handleCloseToolPanel"
    /\ lastEvent.was = Null
    /\ activeToolPanel = Null
    /\ input # <<>>
    /\ activeScene # 0
    /\ replyTimers # <<>>

\* C7: playing names at most one sample, and a play action on a sample
\* other than the one playing leaves that sample playing.
C7_PlayReplaces ==
    [][ /\ playing' \in VoiceIds \cup TrackIds \cup {Null}
        /\ ( ( /\ lastEvent'.op \in {"handlePlayVoice", "handlePlayMusic"}
               /\ playing # Null
               /\ playing # lastEvent'.id )
             => playing' = lastEvent'.id )
      ]_vars

\* C7 witness: a track was started while a voice sample was playing.
C7_Witness ==
    /\ lastEvent.op = "handlePlayMusic"
    /\ lastEvent.was \in VoiceIds
    /\ playing = lastEvent.id

\* C8: a playing music track stops being the playing sample only by a play
\* action of the user or by the panel being closed, never by a timer.
C8_MusicNeverAutoStops ==
    [][ (playing \in TrackIds /\ playing' # playing)
          => lastEvent'.op \in {"handlePlayMusic", "handlePlayVoice",
                                "handleCloseToolPanel"} ]_vars

\* the keywords of C9, and the capital of each of their letters
C9_Replace == <<"r","e","p","l","a","c","e">>
C9_ChangeScene == <<"c","h","a","n","g","e"," ","s","c","e","n","e">>
C9_Script == <<"s","c","r","i","p","t">>
C9_Text == <<"t","e","x","t">>
C9_Capital ==
    [c \in {"a","c","e","g","h","i","l","n","p","r","s","t","x"," "} |->
        CASE c = "a" -> "A" [] c = "c" -> "C" [] c = "e" -> "E"
          [] c = "g" -> "G" [] c = "h" -> "H" [] c = "i" -> "I"
          [] c = "l" -> "L" [] c = "n" -> "N" [] c = "p" -> "P"
          [] c = "r" -> "R" [] c = "s" -> "S" [] c = "t" -> "T"
          [] c = "x" -> "X" [] c = " " -> " "]

\* the text u holds the keyword kw, each letter small or capital
C9_Holds(u, kw) ==
    \E i \in 0..(Len(u) - Len(kw)) :
        \A j \in 1..Len(kw) : u[i + j] \in {kw[j], C9_Capital[kw[j]]}

\* the reply the classification of C9 asks for, for the text u
C9_Expected(u, r) ==
    LET scene == C9_Holds(u, C9_Replace) \/ C9_Holds(u, C9_ChangeScene)
        draft == C9_Holds(u, C9_Script) \/ C9_Holds(u, C9_Text)
    IN  /\ IsAi(r)
        /\ scene =>
             /\ r.content = SceneReplyText
             /\ "options" \in DOMAIN r
             /\ Len(r.options) = 3
             /\ \A k \in 1..Len(r.options) : r.options[k].type = "scene"
             /\ "script" \notin DOMAIN r
        /\ (~scene /\ draft) =>
             /\ r.content = ScriptReplyText
             /\ "script" \in DOMAIN r
             /\ r.script = DefaultScript
             /\ "options" \notin DOMAIN r
        /\ (~scene /\ ~draft) =>
             /\ r.content = MenuReplyText
             /\ "options" \notin DOMAIN r
             /\ "script" \notin DOMAIN r

\* C9: the k-th reply of the log is the one the priority-ordered,
\* case-insensitive keyword classification gives for the k-th user message.
C9_Classification ==
    /\ Len(Replies) <= Len(UserMessages)
    /\ \A k \in 1..Len(Replies) :
          C9_Expected(UserMessages[k].content, Replies[k])

\* C9 witness: a reply to an input with a scene keyword and a script
\* keyword, and a reply to an input with only a script keyword in capitals.
C9_Witness ==
    /\ Len(Replies) = 2
    /\ UserMessages[1].content = TxtReplaceText
    /\ "options" \in DOMAIN Replies[1]
    /\ UserMessages[2].content = TxtText
    /\ "script" \in DOMAIN Replies[2]

\* C10 as stated: two replies to the same input text are the same message,
\* no field of which depends on the log or on the sends before it.
C10_Original ==
    \A k1, k2 \in 1..Len(Replies) :
        UserMessages[k1].content = UserMessages[k2].content
            => Replies[k1] = Replies[k2]

\* C10 as amended: two replies to the same input text have the same type,
\* content and attachments, whatever the log held when each was sent; the
\* id and the timestamp are the fields left out.
C10_Amended ==
    /\ Len(Replies) <= Len(UserMessages)
    /\ \A k1, k2 \in 1..Len(Replies) :
          UserMessages[k1].content = UserMessages[k2].content
              => Content(Replies[k1]) = Content(Replies[k2])

\* C10 witness: the same text was sent twice, with different logs behind
\* it, and both replies are in the log, with different ids and timestamps.
C10_Witness ==
    /\ Len(Replies) = 2
    /\ UserMessages[1].content = UserMessages[2].content
    /\ UserMessages[1].content = TxtPleaseReplace
    /\ Replies[1].id # Replies[2].id
    /\ Replies[1].timestamp # Replies[2].timestamp


\* C11: the active scene, in every reachable state, is the id of a scene of
\* the catalog (activeScene always holds a number: it is never unset).
C11_ActiveSceneInCatalog == activeScene \in SceneIds

C14_ApplyScriptNoEffect ==
    [][ lastEvent'.op = "handleApplyScript"
          => UNCHANGED <<messages, input, activeScene, activeToolPanel,
                         replyTimers>> ]_vars

\* C14 witness: an edited text was applied in a session that has a draft
\* reply, a typed input and a selected scene.
C14_Witness ==
    /\ lastEvent.op = "handleApplyScript"
    /\ lastEvent.text = TxtNewScript
    /\ \E i \in 1..Len(messages) : "script" \in DOMAIN messages[i]
    /\ input # <<>>
    /\ activeScene \in SceneIds

\* C15: a panel is opened only from Viewing; while a panel is open no send,
\* input edit, scene selection or panel opening happens, the panel changes
\* only to none, and only by the close handler.
C15_PanelIsModal ==
    [][ /\ lastEvent'.op = "handleToolClick"
            => /\ activeToolPanel = Null
               /\ activeToolPanel' = lastEvent'.tool
               /\ activeToolPanel' \in Tools
        /\ activeToolPanel # Null
            => /\ lastEvent'.op \notin {"handleSendMessage", "handleSceneClick",
                                       "handleToolClick", "handleInputChange",
                                       "handleApplyScript"}
               /\ UNCHANGED <<input, activeScene>>
               /\ \/ activeToolPanel' = activeToolPanel
                  \/ /\ activeToolPanel' = Null
                     /\ lastEvent'.op = "handleCloseToolPanel" ]_vars

\* C15 witness: the settings panel is open over a session that has a draft
\* and a pending reply.
C15_Witness ==
    /\ lastEvent.op = "handleToolClick"
    /\ activeToolPanel = "settings"
    /\ input # <<>>
    /\ replyTimers # <<>>

\* C16: a voice preview is stopped by a timer only by the timer started
\* with it.  While a voice sample plays, the timer started with it is the
\* newest pending one, so a timer that stops it is the only one pending.
C16_OnlyOwnTimerStops ==
    [][ ( /\ lastEvent'.op = "VoiceTimerFire"
          /\ playing \in VoiceIds
          /\ playing' = Null )
          => Len(voiceTimers) = 1 ]_vars

\* C17: an accepted send leaves the input buffer empty, and a send that
\* follows an accepted send directly appends nothing and schedules nothing.
C17_SecondSendIsNoOp ==
    [][ lastEvent'.op = "handleSendMessage" =>
          /\ lastEvent'.accepted => input' = <<>>
          /\ lastEvent'.afterAccepted
                => /\ ~lastEvent'.accepted
                   /\ UNCHANGED <<messages, input, replyTimers, sends>> ]_vars

\* C17 witness: a send ran directly after an accepted send.
C17_Witness ==
    /\ lastEvent.op = "handleSendMessage"
    /\ lastEvent.afterAccepted
    /\ IsUser(messages[Len(messages)])
    /\ Len(replyTimers) = 1

\* C18: whenever the Audio panel is opened its state is the initial one:
\* voice tab, nothing playing, the default script.
C18_AudioStateRecreated ==
    [][ (lastEvent'.op = "handleToolClick" /\ lastEvent'.tool = "audio")
          => /\ activeTab' = "voice"
             /\ playing' = Null
             /\ script' = DefaultScript ]_vars

\* C18 witness: the panel was opened again while a voice timer of its
\* previous opening is still pending.
C18_Witness ==
    /\ lastEvent.op = "handleToolClick"
    /\ activeToolPanel = "audio"
    /\ voiceTimers # <<>>
    /\ \A i \in 1..Len(voiceTimers) : ~voiceTimers[i].mounted

\* C19: opening and closing a panel leave the log, the input buffer, the
\* active scene and the pending reply timers as they were, and a reply
\* callback that runs while a panel is open appends its reply.
C19_PanelSwitchFrame ==
    [][ /\ lastEvent'.op \in {"handleToolClick", "handleCloseToolPanel"}
            => UNCHANGED <<messages, input, activeScene, replyTimers>>
        /\ (lastEvent'.op = "ReplyTimerFire" /\ activeToolPanel # Null)
            => /\ Len(messages') = Len(messages) + 1
               /\ IsPrefix(messages, messages')
               /\ IsAi(messages'[Len(messages')])
               /\ UNCHANGED activeToolPanel ]_vars

\* C19 witness: a reply arrived while a panel was open.
C19_Witness ==
    /\ lastEvent.op = "ReplyTimerFire"
    /\ activeToolPanel # Null
    /\ Len(Replies) >= 1
    /\ input # <<>>

\* the positions in the log of the user messages, and of the replies
Positions == [i \in 1..Len(messages) |-> i]
IsUserAt(i) == IsUser(messages[i])
IsReplyAt(i) == i > 1 /\ IsAi(messages[i])
UserPos == SelectSeq(Positions, IsUserAt)
ReplyPos == SelectSeq(Positions, IsReplyAt)

\* C20: the k-th reply of the log is the reply to the k-th user message (it
\* carries the id that send gave it and the content that text selects), and
\* it stands after that message.
C20_RepliesInSendOrder ==
    /\ Len(ReplyPos) <= Len(UserPos)
    /\ \A k \in 1..Len(ReplyPos) :
          /\ ReplyPos[k] > UserPos[k]
          /\ messages[ReplyPos[k]].id = messages[UserPos[k]].id + 1
          /\ C9_Expected(messages[UserPos[k]].content, messages[ReplyPos[k]])

\* C20 witness: three sends were made before any reply, with texts that
\* select different replies, and the replies have arrived.
C20_Witness ==
    /\ Len(messages) = 7
    /\ UserPos = <<2, 3, 4>>
    /\ ReplyPos = <<5, 6, 7>>
    /\ messages[2].content = TxtChangeScene
    /\ messages[3].content = TxtMyScript
    /\ messages[4].content = TxtHello


\* C21: when no send is accepted while a reply is pending, every message
\* of the log has its 1-based position as id, so the ids are 1, 2, ..., n.
C21_IdsArePositions ==
    \A i \in 1..Len(messages) : messages[i].id = i

\* C21 witness: two or more exchanges, each send made after the reply to
\* the one before, all replies in the log.
C21_Witness ==
    /\ sends >= 2
    /\ replyTimers = <<>>
    /\ Len(messages) = 1 + 2 * sends
    /\ \A k \in 1..sends : IsUser(messages[2 * k]) /\ IsAi(messages[2 * k + 1])

====
